---- MODULE Spec2Model ----
(***************************************************************************)
(* SDG&E Green Button Data processors: the fixed TOU-DR schedule           *)
(* (sdge_gbd_processor.py, driven by sdge_processor_cli.py) and the        *)
(* JSON-configured schedule (sdge_processor_configurable.py).              *)
(*                                                                         *)
(* Quantities are exact decimals scaled to integers: energy in whole kWh,  *)
(* rates in units of 0.00001 $/kWh, so Cost is in units of 0.00001 $.      *)
(***************************************************************************)
EXTENDS Integers, Sequences, FiniteSets, TLC

VARIABLES
    iv,           \* fixed schedule: the interval read from the file
    row,          \* fixed schedule: iv classified, or NoRow before that
    config,       \* configurable: self.config (json.load of the rates file)
    tp,           \* configurable: the last get_time_period call and its result
    entry,        \* which __main__ / main() started the batch
    csv_files,    \* glob.glob(...) result, in processing order
    idx,          \* position of the for-loop over csv_files
    all_data,     \* list of per-file data frames collected so far
    file_totals,  \* per file processed: the printed (total usage, total cost)
    stdout,       \* lines printed so far
    output_file,  \* rows written by to_csv, or NotWritten
    summary,      \* overall summary printed after the save, or NoSummary
    pc            \* control point of the batch

vars == <<iv, row, config, tp, entry, csv_files, idx, all_data, file_totals,
          stdout, output_file, summary, pc>>

----------------------------------------------------------------------------
(* Bounds *)

MaxYear == 2026
MaxKwh == 2
MaxFiles == 2
MaxRows == 2

----------------------------------------------------------------------------
(* Calendar: what pandas / datetime compute for a date *)

Years == 2025..MaxYear

IsLeap(y) == (y % 4 = 0 /\ y % 100 # 0) \/ y % 400 = 0

DaysInMonth(y, m) ==
    IF m = 2 THEN (IF IsLeap(y) THEN 29 ELSE 28)
    ELSE IF m \in {4, 6, 9, 11} THEN 30 ELSE 31

Dates == {dt \in [year : Years, month : 1..12, day : 1..31] :
            dt.day <= DaysInMonth(dt.year, dt.month)}

MonthOffset == <<0, 3, 2, 5, 0, 3, 5, 1, 4, 6, 2, 4>>

\* Series.dt.dayofweek: 0 = Monday ... 6 = Sunday
dayofweek(date) ==
    LET y == IF date.month < 3 THEN date.year - 1 ELSE date.year
        sun0 == (y + (y \div 4) - (y \div 100) + (y \div 400)
                 + MonthOffset[date.month] + date.day) % 7
    IN (sun0 + 6) % 7

\* date.strftime('%-m/%-d/%Y'): month and day without zero padding
strftime_mdY(date) ==
    ToString(date.month) \o "/" \o ToString(date.day) \o "/" \o ToString(date.year)

Pad2(n) == IF n < 10 THEN "0" \o ToString(n) ELSE ToString(n)

\* '%I:%M %p' parsed to a time: the 24-hour clock hour of a 12-hour reading
hour_of(I, p) == (I % 12) + (IF p = "PM" THEN 12 ELSE 0)

----------------------------------------------------------------------------
(* sdge_gbd_processor.py: module constants and pure functions *)

RATES ==
    [summer |-> [on_peak |-> 59908, off_peak |-> 52754, super_off_peak |-> 45000],
     winter |-> [on_peak |-> 58155, off_peak |-> 51899, super_off_peak |-> 50084]]

HOLIDAYS == {"1/1/2025", "2/17/2025", "5/26/2025", "7/4/2025",
             "9/1/2025", "11/11/2025", "11/27/2025", "12/25/2025"}

get_season_lo(date) ==
    IF 6 < date.month /\ date.month <= 10 THEN "summer" ELSE "winter"

get_season(date) ==
    IF 6 <= date.month /\ date.month <= 10 THEN "summer" ELSE "winter"

is_holiday_padded(date) ==
    (Pad2(date.month) \o "/" \o Pad2(date.day) \o "/" \o ToString(date.year))
        \in HOLIDAYS

is_holiday(date) == strftime_mdY(date) \in HOLIDAYS

get_time_period_late(date, hour, is_weekend_holiday) ==
    IF is_weekend_holiday
    THEN IF 16 <= hour /\ hour <= 21 THEN "on_peak"
         ELSE IF (14 <= hour /\ hour < 16) \/ (21 <= hour /\ hour < 24) THEN "off_peak"
         ELSE "super_off_peak"
    ELSE IF 16 <= hour /\ hour <= 21 THEN "on_peak"
         ELSE IF (6 <= hour /\ hour < 16) \/ (21 <= hour /\ hour < 24)
              THEN IF date.month \in {3, 4} /\ 10 <= hour /\ hour < 14
                   THEN "super_off_peak" ELSE "off_peak"
         ELSE "super_off_peak"

get_time_period_wide(date, hour, is_weekend_holiday) ==
    IF is_weekend_holiday
    THEN IF 16 <= hour /\ hour < 21 THEN "on_peak"
         ELSE IF (14 <= hour /\ hour < 16) \/ (21 <= hour /\ hour < 24) THEN "off_peak"
         ELSE "super_off_peak"
    ELSE IF 16 <= hour /\ hour < 21 THEN "on_peak"
         ELSE IF (6 <= hour /\ hour < 16) \/ (21 <= hour /\ hour < 24)
              THEN IF date.month \in {3, 4} /\ 10 <= hour /\ hour <= 14
                   THEN "super_off_peak" ELSE "off_peak"
         ELSE "super_off_peak"

get_time_period(date, hour, is_weekend_holiday) ==
    IF is_weekend_holiday
    THEN IF 16 <= hour /\ hour < 21 THEN "on_peak"
         ELSE IF (14 <= hour /\ hour < 16) \/ (21 <= hour /\ hour < 24) THEN "off_peak"
         ELSE "super_off_peak"
    ELSE IF 16 <= hour /\ hour < 21 THEN "on_peak"
         ELSE IF (6 <= hour /\ hour < 16) \/ (21 <= hour /\ hour < 24)
              THEN IF date.month \in {3, 4} /\ 10 <= hour /\ hour < 14
                   THEN "super_off_peak" ELSE "off_peak"
         ELSE "super_off_peak"

\* One usage interval as the file gives it: Date, Start Time, and the three
\* energy columns (Net is the file's own column, consumption less generation).
Interval(date, I, p, cons, gen) ==
    [Date |-> date, StartI |-> I, StartP |-> p,
     Consumption |-> cons, Generation |-> gen, Net |-> cons - gen]

\* The per-row result of the column pipeline of process_gbd_files
ClassifyRow_gross(i) ==
    LET hour == hour_of(i.StartI, i.StartP)
        wd == dayofweek(i.Date)
        weekend == wd \in {5, 6}
        holiday == is_holiday(i.Date)
        wh == weekend \/ holiday
        season == get_season(i.Date)
        period == get_time_period(i.Date, hour, wh)
        rate == RATES[season][period]
    IN [Date |-> i.Date, Hour |-> hour,
        Consumption |-> i.Consumption, Generation |-> i.Generation, Net |-> i.Net,
        Weekday |-> wd, IsWeekend |-> weekend, IsHoliday |-> holiday,
        IsWeekendHoliday |-> wh, Season |-> season, TimePeriod |-> period,
        Rate |-> rate, Cost |-> i.Consumption * rate]

ClassifyRow(i) ==
    LET hour == hour_of(i.StartI, i.StartP)
        wd == dayofweek(i.Date)
        weekend == wd \in {5, 6}
        holiday == is_holiday(i.Date)
        wh == weekend \/ holiday
        season == get_season(i.Date)
        period == get_time_period(i.Date, hour, wh)
        rate == RATES[season][period]
    IN [Date |-> i.Date, Hour |-> hour,
        Consumption |-> i.Consumption, Generation |-> i.Generation, Net |-> i.Net,
        Weekday |-> wd, IsWeekend |-> weekend, IsHoliday |-> holiday,
        IsWeekendHoliday |-> wh, Season |-> season, TimePeriod |-> period,
        Rate |-> rate, Cost |-> i.Net * rate]

NoRow == [Date |-> "none"]

NotWritten == [written |-> FALSE, rows |-> <<>>]

NoSummary == [printed |-> FALSE]

Intervals ==
    {Interval(date, I, p, cons, gen) :
        date \in Dates, I \in 1..12, p \in {"AM", "PM"},
        cons \in 0..MaxKwh, gen \in 0..MaxKwh}

----------------------------------------------------------------------------
(* SpecClassify: the fixed schedule applied to one interval at a time *)

BatchIdle ==
    /\ entry = "none" /\ csv_files = <<>> /\ idx = 0 /\ all_data = <<>>
    /\ file_totals = <<>> /\ stdout = <<>> /\ output_file = NotWritten
    /\ summary = NoSummary /\ pc = "idle"

InitClassify ==
    /\ iv \in Intervals
    /\ row = NoRow
    /\ config = "none"
    /\ tp = "none"
    /\ BatchIdle

Classify ==
    /\ row = NoRow
    /\ row' = ClassifyRow(iv)
    /\ UNCHANGED <<iv, config, tp, entry, csv_files, idx, all_data, file_totals,
                   stdout, output_file, summary, pc>>

NextClassify == Classify

SpecClassify == InitClassify /\ [][NextClassify]_vars

Classified == row # NoRow

----------------------------------------------------------------------------
(* Data-frame helpers: what pandas computes over the rows of a frame *)

RECURSIVE SumOf(_, _)
\* Series.sum() of column col
SumOf(rows, col) ==
    IF rows = <<>> THEN 0 ELSE rows[1][col] + SumOf(Tail(rows), col)

concat_last(frames) ==
    IF frames = <<>> THEN <<>> ELSE frames[Len(frames)]

RECURSIVE concat(_)
\* pd.concat(frames, ignore_index=True)
concat(frames) ==
    IF frames = <<>> THEN <<>> ELSE frames[1] \o concat(Tail(frames))

RowsWhere(rows, period) == SelectSeq(rows, LAMBDA r : r.TimePeriod = period)

\* groupby('TimePeriod')[col].sum(): one key per tier present in the rows
GroupSum(rows, col) ==
    [period \in {rows[i].TimePeriod : i \in 1..Len(rows)} |->
        SumOf(RowsWhere(rows, period), col)]

\* The overall summary printed after the save
OverallSummary(combined) ==
    [records |-> Len(combined),
     usage |-> SumOf(combined, "Net"),
     cost |-> SumOf(combined, "Cost"),
     cost_by_period |-> GroupSum(combined, "Cost"),
     net_by_period |-> GroupSum(combined, "Net")]

----------------------------------------------------------------------------
(* Input files of a batch *)

\* Two intervals of different seasons and tiers and of both signs of Net
SampleIntervals ==
    {Interval([year |-> 2025, month |-> 7, day |-> 15], 2, "PM", MaxKwh, 0),
     Interval([year |-> 2025, month |-> 3, day |-> 10], 11, "AM", 0, MaxKwh)}

SeqsUpTo(S, lo, hi) == UNION {[1..n -> S] : n \in lo..hi}

\* ok = FALSE: a file parse_gbd_file / the column conversions raise on
InputFiles ==
    {[ok |-> TRUE, rows |-> r] : r \in SeqsUpTo(SampleIntervals, 1, MaxRows)}
      \cup {[ok |-> FALSE, rows |-> <<>>]}

Batches == SeqsUpTo(InputFiles, 0, MaxFiles)

----------------------------------------------------------------------------
(* sdge_gbd_processor.process_gbd_files, run by its own __main__ or by      *)
(* sdge_processor_cli.main                                                 *)

\* The try body for one file: the classified frame, or the exception
process_one(f) ==
    IF f.ok
    THEN [ok |-> TRUE, df |-> [i \in 1..Len(f.rows) |-> ClassifyRow(f.rows[i])]]
    ELSE [ok |-> FALSE, df |-> <<>>]

RECURSIVE collect(_)
\* all_data after the for-loop over the files
collect(files) ==
    IF files = <<>> THEN <<>>
    ELSE LET r == process_one(files[1])
         IN (IF r.ok THEN <<r.df>> ELSE <<>>) \o collect(Tail(files))

InitBatch ==
    /\ iv = "none"
    /\ row = NoRow
    /\ config = "none"
    /\ tp = "none"
    /\ entry \in {"script", "cli"}
    /\ csv_files \in Batches
    /\ idx = 0
    /\ all_data = <<>>
    /\ file_totals = <<>>
    /\ stdout = <<>>
    /\ output_file = NotWritten
    /\ summary = NoSummary
    /\ pc = "glob"

Discover ==
    /\ pc = "glob"
    /\ IF csv_files = <<>>
       THEN /\ stdout' = Append(stdout, <<"No CSV files found">>)
            /\ pc' = "returned"
       ELSE /\ stdout' = Append(stdout, <<"Found", Len(csv_files)>>)
            /\ pc' = "loop"
    /\ UNCHANGED <<iv, row, config, tp, entry, csv_files, idx, all_data,
                   file_totals, output_file, summary>>

ProcessFile ==
    /\ pc = "loop"
    /\ idx < Len(csv_files)
    /\ LET r == process_one(csv_files[idx + 1])
       IN IF r.ok
          THEN /\ all_data' = Append(all_data, r.df)
               /\ file_totals' = Append(file_totals,
                     [usage |-> SumOf(r.df, "Net"), cost |-> SumOf(r.df, "Cost")])
               /\ stdout' = stdout \o <<<<"Processing", idx + 1>>,
                     <<"Totals", idx + 1, SumOf(r.df, "Net"), SumOf(r.df, "Cost")>>>>
          ELSE /\ stdout' = stdout \o <<<<"Processing", idx + 1>>,
                     <<"Error processing file", idx + 1>>>>
               /\ UNCHANGED <<all_data, file_totals>>
    /\ idx' = idx + 1
    /\ UNCHANGED <<iv, row, config, tp, entry, csv_files, output_file, summary, pc>>

Finish ==
    /\ pc = "loop"
    /\ idx = Len(csv_files)
    /\ IF all_data # <<>>
       THEN LET combined_df == concat(all_data)
            IN /\ output_file' = [written |-> TRUE, rows |-> combined_df]
               /\ summary' = OverallSummary(combined_df)
               /\ stdout' = Append(stdout, <<"Processed data saved to">>)
       ELSE /\ stdout' = Append(stdout, <<"No data was successfully processed">>)
            /\ UNCHANGED <<output_file, summary>>
    /\ pc' = "returned"
    /\ UNCHANGED <<iv, row, config, tp, entry, csv_files, idx, all_data, file_totals>>

\* Back in the caller: cli.main prints its own line after the call returns
MainReturn ==
    /\ pc = "returned"
    /\ IF entry = "cli"
       THEN stdout' = Append(stdout, <<"Success! Processed data saved to">>)
       ELSE UNCHANGED stdout
    /\ pc' = "exit"
    /\ UNCHANGED <<iv, row, config, tp, entry, csv_files, idx, all_data,
                   file_totals, output_file, summary>>

Next ==
    \/ Discover
    \/ ProcessFile
    \/ Finish
    \/ MainReturn

Spec == InitBatch /\ [][Next]_vars

----------------------------------------------------------------------------
(* sdge_processor_configurable.py: class SDGEProcessor                      *)
(*                                                                         *)
(* self.config is the parsed JSON.  A schedule of config.time_periods is   *)
(* [order, ranges, special]: order is the key order of the JSON object     *)
(* (without special_periods), ranges maps each key to its list of          *)
(* <<start, end>> pairs, special is the special_periods object if present. *)
(* config.rates[season] maps "months" and the tier names it holds.         *)

TierNames == {"on_peak", "off_peak", "super_off_peak"}

NoSpecial == [present |-> FALSE, months |-> {}, super_off_peak_extra |-> <<>>]

MarchApril == [present |-> TRUE, months |-> {3, 4},
               super_off_peak_extra |-> << <<10, 14>> >>]

InRanges(hours_list, hour) ==
    \E i \in 1..Len(hours_list) :
        hours_list[i][1] <= hour /\ hour < hours_list[i][2]

\* period_name.replace('_', '_'): every '_' replaced by '_'
replace_underscore(period_name) == period_name

RECURSIVE first_match(_, _, _)
\* The for-loop over periods.items(): the first key, in key order, one of
\* whose ranges holds the hour; "" when the loop ends without a return
first_match(order, ranges, hour) ==
    IF order = <<>> THEN ""
    ELSE IF InRanges(ranges[order[1]], hour) THEN replace_underscore(order[1])
    ELSE first_match(Tail(order), ranges, hour)

SDGEProcessor_get_time_period(cfg, hour, is_weekend_holiday, month) ==
    LET periods == cfg.time_periods[IF is_weekend_holiday THEN "weekend_holiday"
                                    ELSE "weekday"]
        base == first_match(periods.order, periods.ranges, hour)
    IN IF base # "" THEN base
       ELSE IF /\ ~is_weekend_holiday
               /\ periods.special.present
               /\ month \in periods.special.months
               /\ InRanges(periods.special.super_off_peak_extra, hour)
            THEN "super_off_peak"
       ELSE "off_peak"

SDGEProcessor_get_season(cfg, date) ==
    IF date.month \in cfg.rates["summer"]["months"] THEN "summer" ELSE "winter"

\* self.holidays holds the dates strptime('%Y-%m-%d') made of the strings
SDGEProcessor_is_holiday(cfg, date) == date \in cfg.holidays

StandardWeekend ==
    [order |-> <<"on_peak", "off_peak", "super_off_peak">>,
     ranges |-> [on_peak |-> << <<16, 21>> >>,
                 off_peak |-> << <<14, 16>>, <<21, 24>> >>,
                 super_off_peak |-> << <<0, 14>> >>],
     special |-> NoSpecial]

StandardWeekday ==
    [order |-> <<"on_peak", "off_peak", "super_off_peak">>,
     ranges |-> [on_peak |-> << <<16, 21>> >>,
                 off_peak |-> << <<6, 16>>, <<21, 24>> >>,
                 super_off_peak |-> << <<0, 6>> >>],
     special |-> MarchApril]

Holidays2025 ==
    {[year |-> 2025, month |-> h[1], day |-> h[2]] :
        h \in {<<1, 1>>, <<2, 17>>, <<5, 26>>, <<7, 4>>,
               <<9, 1>>, <<11, 11>>, <<11, 27>>, <<12, 25>>}}

SummerRates == [months |-> 6..10, on_peak |-> 59908, off_peak |-> 52754,
                super_off_peak |-> 45000]

WinterRates == [months |-> {11, 12, 1, 2, 3, 4, 5}, on_peak |-> 58155,
                off_peak |-> 51899, super_off_peak |-> 50084]

StandardConfig ==
    [holidays |-> Holidays2025,
     rates |-> [summer |-> SummerRates, winter |-> WinterRates],
     time_periods |-> [weekday |-> StandardWeekday,
                       weekend_holiday |-> StandardWeekend]]

----------------------------------------------------------------------------
(* SpecResolve: SDGEProcessor.get_time_period over a family of schedules *)

WeekdaySchedules ==
    {[order |-> o,
      ranges |-> [on_peak |-> << <<16, 21>> >>, off_peak |-> off, super_off_peak |-> sop],
      special |-> sp] :
        o \in {<<"on_peak", "off_peak", "super_off_peak">>,
               <<"off_peak", "on_peak", "super_off_peak">>,
               <<"super_off_peak", "off_peak", "on_peak">>},
        off \in {<< <<6, 16>>, <<21, 24>> >>, << <<6, 24>> >>},
        sop \in {<< <<0, 6>> >>, << <<0, 14>> >>, <<>>},
        sp \in {NoSpecial, MarchApril}}

ResolveConfigs ==
    {[StandardConfig EXCEPT !.time_periods.weekday = wd] : wd \in WeekdaySchedules}

InitResolve ==
    /\ iv = "none"
    /\ row = NoRow
    /\ config \in ResolveConfigs
    /\ tp \in [called : {FALSE}, hour : 0..23, is_weekend_holiday : BOOLEAN,
               month : 1..12, result : {""}]
    /\ BatchIdle

Resolve ==
    /\ ~tp.called
    /\ tp' = [tp EXCEPT !.called = TRUE,
                 !.result = SDGEProcessor_get_time_period(
                                config, tp.hour, tp.is_weekend_holiday, tp.month)]
    /\ UNCHANGED <<iv, row, config, entry, csv_files, idx, all_data, file_totals,
                   stdout, output_file, summary, pc>>

NextResolve == Resolve

SpecResolve == InitResolve /\ [][NextResolve]_vars

----------------------------------------------------------------------------
(* SpecCfg: SDGEProcessor(config_file).process_folder(...)                  *)

Without(f, key) == [k \in (DOMAIN f) \ {key} |-> f[k]]

\* Configurations a rates file can hold: the standard one, rate tables that
\* lack an entry, season month lists with a hole or an overlap, and an hour
\* range whose end precedes its start
BatchConfigs ==
    {StandardConfig,
     [StandardConfig EXCEPT !.rates.summer = Without(SummerRates, "off_peak")],
     [StandardConfig EXCEPT !.rates.winter.months = {11, 12, 1, 2, 3, 4}],
     [StandardConfig EXCEPT !.rates.winter.months = {10, 11, 12, 1, 2, 3, 4, 5}],
     [StandardConfig EXCEPT !.time_periods.weekday.ranges.super_off_peak = << <<6, 0>> >>]}

\* The row the column pipeline of process_file gives, or the KeyError of the
\* rate lookup
cfg_row(cfg, i) ==
    LET hour == hour_of(i.StartI, i.StartP)
        wd == dayofweek(i.Date)
        weekend == wd \in {5, 6}
        holiday == SDGEProcessor_is_holiday(cfg, i.Date)
        wh == weekend \/ holiday
        season == SDGEProcessor_get_season(cfg, i.Date)
        period == SDGEProcessor_get_time_period(cfg, hour, wh, i.Date.month)
    IN IF season \in DOMAIN cfg.rates /\ period \in DOMAIN cfg.rates[season]
       THEN [ok |-> TRUE, Date |-> i.Date, Hour |-> hour,
             Consumption |-> i.Consumption, Generation |-> i.Generation,
             Net |-> i.Net, Weekday |-> wd, IsWeekend |-> weekend,
             IsHoliday |-> holiday, IsWeekendHoliday |-> wh, Month |-> i.Date.month,
             Season |-> season, TimePeriod |-> period,
             Rate |-> cfg.rates[season][period],
             Cost |-> i.Net * cfg.rates[season][period]]
       ELSE [ok |-> FALSE]

\* A process_file that hands back the rows priced before the rate lookup failed
process_file_partial(cfg, f) ==
    IF ~f.ok THEN [ok |-> FALSE, df |-> <<>>]
    ELSE LET rows == [i \in 1..Len(f.rows) |-> cfg_row(cfg, f.rows[i])]
         IN [ok |-> TRUE, df |-> SelectSeq(rows, LAMBDA r : r.ok)]

\* process_file: the frame of the file, or the exception it raises
process_file(cfg, f) ==
    IF ~f.ok THEN [ok |-> FALSE, df |-> <<>>]
    ELSE LET rows == [i \in 1..Len(f.rows) |-> cfg_row(cfg, f.rows[i])]
         IN IF \A i \in 1..Len(rows) : rows[i].ok
            THEN [ok |-> TRUE, df |-> rows]
            ELSE [ok |-> FALSE, df |-> <<>>]

RECURSIVE cfg_collect(_, _)
\* all_data after the for-loop of process_folder over the files
cfg_collect(cfg, files) ==
    IF files = <<>> THEN <<>>
    ELSE LET r == process_file(cfg, files[1])
         IN (IF r.ok THEN <<r.df>> ELSE <<>>) \o cfg_collect(cfg, Tail(files))

InitCfg ==
    /\ iv = "none"
    /\ row = NoRow
    /\ config \in BatchConfigs
    /\ tp = "none"
    /\ entry = "configurable"
    /\ csv_files \in Batches
    /\ idx = 0
    /\ all_data = <<>>
    /\ file_totals = <<>>
    /\ stdout = <<>>
    /\ output_file = NotWritten
    /\ summary = NoSummary
    /\ pc = "init"

\* SDGEProcessor.__init__: json.load and the holiday conversion, nothing else
CfgLoad ==
    /\ pc = "init"
    /\ pc' = "glob"
    /\ UNCHANGED <<iv, row, config, tp, entry, csv_files, idx, all_data,
                   file_totals, stdout, output_file, summary>>

CfgDiscover ==
    /\ pc = "glob"
    /\ IF csv_files = <<>>
       THEN /\ stdout' = Append(stdout, <<"No CSV files found">>)
            /\ pc' = "exit"
       ELSE /\ stdout' = Append(stdout, <<"Processing files", Len(csv_files)>>)
            /\ pc' = "loop"
    /\ UNCHANGED <<iv, row, config, tp, entry, csv_files, idx, all_data,
                   file_totals, output_file, summary>>

CfgProcessFile ==
    /\ pc = "loop"
    /\ idx < Len(csv_files)
    /\ LET r == process_file(config, csv_files[idx + 1])
       IN IF r.ok
          THEN /\ all_data' = Append(all_data, r.df)
               /\ file_totals' = Append(file_totals,
                     [usage |-> SumOf(r.df, "Net"), cost |-> SumOf(r.df, "Cost")])
               /\ stdout' = stdout \o <<<<"File", idx + 1>>,
                     <<"Usage and cost", idx + 1, SumOf(r.df, "Net"), SumOf(r.df, "Cost")>>>>
          ELSE /\ stdout' = stdout \o <<<<"File", idx + 1>>, <<"Error", idx + 1>>>>
               /\ UNCHANGED <<all_data, file_totals>>
    /\ idx' = idx + 1
    /\ UNCHANGED <<iv, row, config, tp, entry, csv_files, output_file, summary, pc>>

CfgFinish ==
    /\ pc = "loop"
    /\ idx = Len(csv_files)
    /\ IF all_data # <<>>
       THEN LET combined == concat(all_data)
            IN /\ output_file' = [written |-> TRUE, rows |-> combined]
               /\ summary' = OverallSummary(combined)
               /\ stdout' = Append(stdout, <<"Saved to">>)
       ELSE UNCHANGED <<output_file, summary, stdout>>
    /\ pc' = "exit"
    /\ UNCHANGED <<iv, row, config, tp, entry, csv_files, idx, all_data, file_totals>>

NextCfg ==
    \/ CfgLoad
    \/ CfgDiscover
    \/ CfgProcessFile
    \/ CfgFinish

SpecCfg == InitCfg /\ [][NextCfg]_vars

----------------------------------------------------------------------------
(* The tariff as the specification tabulates it, for stating the claims *)

HolidayDates ==
    {<<2025, 1, 1>>, <<2025, 2, 17>>, <<2025, 5, 26>>, <<2025, 7, 4>>,
     <<2025, 9, 1>>, <<2025, 11, 11>>, <<2025, 11, 27>>, <<2025, 12, 25>>}

WeekendTierOf(h) ==
    IF h \in 16..20 THEN "on_peak"
    ELSE IF h \in {14, 15, 21, 22, 23} THEN "off_peak"
    ELSE "super_off_peak"

WeekdayTierOf(h, m) ==
    IF h \in 16..20 THEN "on_peak"
    ELSE IF h \in 0..5 THEN "super_off_peak"
    ELSE IF m \in {3, 4} /\ h \in 10..13 THEN "super_off_peak"
    ELSE "off_peak"

\* C2: under the fixed schedule a weekday hour 10..13 in March or April is
\* super_off_peak, hour 14 in those months is off_peak, hours 10..13 in any
\* other month are off_peak, and on a weekend-or-holiday day-type the tier is
\* the weekend table's whatever the month.
C2_WeekdayOverride ==
    Classified =>
        /\ (~row.IsWeekendHoliday /\ row.Date.month \in {3, 4} /\ row.Hour \in 10..13)
              => row.TimePeriod = "super_off_peak"
        /\ (~row.IsWeekendHoliday /\ row.Date.month \in {3, 4} /\ row.Hour = 14)
              => row.TimePeriod = "off_peak"
        /\ (~row.IsWeekendHoliday /\ row.Date.month \notin {3, 4} /\ row.Hour \in 10..13)
              => row.TimePeriod = "off_peak"
        /\ row.IsWeekendHoliday => row.TimePeriod = WeekendTierOf(row.Hour)

C2_Witness ==
    /\ Classified
    /\ ~row.IsWeekendHoliday /\ row.Date.month = 3 /\ row.Hour = 11
    /\ row.TimePeriod = "super_off_peak"

\* C3: an interval is classified with the weekend-or-holiday schedule exactly
\* when its date is a Saturday, a Sunday or one of the configured holidays
\* (by calendar day, whatever the time of day); otherwise with the weekday
\* schedule.  Friday 2025-07-04 is such a holiday.
C3_DayType ==
    Classified =>
        LET d == row.Date
            special == row.Weekday \in {5, 6}
                          \/ <<d.year, d.month, d.day>> \in HolidayDates
        IN /\ row.IsWeekendHoliday <=> special
           /\ row.TimePeriod = IF special THEN WeekendTierOf(row.Hour)
                               ELSE WeekdayTierOf(row.Hour, d.month)
           /\ (d = [year |-> 2025, month |-> 7, day |-> 4])
                 => (row.Weekday = 4 /\ row.IsWeekendHoliday)

C3_Witness ==
    /\ Classified
    /\ row.Date = [year |-> 2025, month |-> 7, day |-> 4]
    /\ row.Weekday = 4 /\ row.IsHoliday /\ row.IsWeekendHoliday
    /\ row.Hour = 10 /\ row.TimePeriod = "super_off_peak"

\* C7: each classified interval carries the rate of its own (season, tier)
\* pair, Cost is exactly Net times Rate, Cost is negative exactly when Net is
\* negative and zero exactly when Net is zero.
C7_CostIsNetTimesRate ==
    Classified =>
        /\ row.Rate = RATES[row.Season][row.TimePeriod]
        /\ row.Rate > 0
        /\ row.Cost = row.Net * row.Rate
        /\ (row.Cost < 0 <=> row.Net < 0)
        /\ (row.Cost = 0 <=> row.Net = 0)

C7_Witness ==
    /\ Classified
    /\ row.Net < 0 /\ row.Generation > row.Consumption /\ row.Consumption > 0
    /\ row.Cost = row.Net * row.Rate /\ row.Cost < 0

\* C8: under the fixed schedule, for both day-types and every month, the tier
\* is on_peak exactly for hours 16..20, and hour 21 is off_peak.
C8_OnPeakBoundaries ==
    Classified =>
        /\ (row.TimePeriod = "on_peak" <=> row.Hour \in 16..20)
        /\ (row.Hour = 21 => row.TimePeriod = "off_peak")
        /\ (row.Hour = 15 => row.TimePeriod # "on_peak")

C8_Witness ==
    /\ Classified
    /\ row.Hour = 21 /\ row.IsWeekendHoliday /\ row.TimePeriod = "off_peak"

\* C10: the season of a date is summer when its month is June..October and
\* winter for every other month.
C10_Season ==
    Classified =>
        row.Season = IF row.Date.month \in {6, 7, 8, 9, 10} THEN "summer" ELSE "winter"

C10_Witness ==
    /\ Classified
    /\ row.Date.month = 6 /\ row.Season = "summer"

----------------------------------------------------------------------------
(* Claims about the batch of the fixed-schedule processor *)

Range(q) == {q[i] : i \in 1..Len(q)}

Orderings(files) ==
    {[i \in 1..Len(files) |-> files[f[i]]] :
        f \in {g \in [1..Len(files) -> 1..Len(files)] :
                 \A i, j \in 1..Len(files) : g[i] = g[j] => i = j}}

\* The overall summary a whole run over the files prints, if it prints one
GlobalOf(files) ==
    IF collect(files) = <<>> THEN NoSummary
    ELSE OverallSummary(concat(collect(files)))

BatchDone == pc \in {"returned", "exit"}

C9_EmptyBatchNoOp ==
    (pc = "exit" /\ all_data = <<>>) =>
        /\ ~output_file.written
        /\ \/ <<"No CSV files found">> \in Range(stdout)
           \/ <<"No data was successfully processed">> \in Range(stdout)
        /\ <<"Success! Processed data saved to">> \notin Range(stdout)

----------------------------------------------------------------------------
(* Claims about the configured schedule *)

RECURSIVE FirstBaseTier(_, _, _)
\* The tier of the first base range holding the hour, the tiers tested in
\* the priority order given; "" when no base range holds it
FirstBaseTier(priority, ranges, hour) ==
    IF priority = <<>> THEN ""
    ELSE IF InRanges(ranges[priority[1]], hour) THEN priority[1]
    ELSE FirstBaseTier(Tail(priority), ranges, hour)

\* resolve_tier of the specification
ResolveTier(cfg, hour, month, is_weekend_holiday) ==
    LET periods == cfg.time_periods[IF is_weekend_holiday THEN "weekend_holiday"
                                    ELSE "weekday"]
        base == FirstBaseTier(<<"on_peak", "off_peak", "super_off_peak">>,
                              periods.ranges, hour)
    IN IF /\ base = "off_peak"
          /\ ~is_weekend_holiday
          /\ periods.special.present
          /\ month \in periods.special.months
          /\ InRanges(periods.special.super_off_peak_extra, hour)
       THEN "super_off_peak"
       ELSE IF base = "" THEN "off_peak"
       ELSE base

\* C1: for every described schedule, hour, month and day-type, get_time_period
\* returns the tier of the specification's resolve_tier: first matching base
\* range in the order on_peak, off_peak, super_off_peak; a weekday base
\* off_peak hour inside an active override sub-range becomes super_off_peak;
\* off_peak when no range matches.
C1_ResolveTier ==
    tp.called =>
        tp.result = ResolveTier(config, tp.hour, tp.month, tp.is_weekend_holiday)

----------------------------------------------------------------------------
(* Claims about the batch of the configured processor *)

\* Classifying the file fails on a (season, tier) pair the rate table lacks
MissingRate(cfg, f) ==
    f.ok /\ \E i \in 1..Len(f.rows) : ~cfg_row(cfg, f.rows[i]).ok

WithoutMissingRate(cfg, files) ==
    SelectSeq(files, LAMBDA f : ~MissingRate(cfg, f))

TotalsOf(frames) ==
    [i \in 1..Len(frames) |->
        [usage |-> SumOf(frames[i], "Net"), cost |-> SumOf(frames[i], "Cost")]]

RECURSIVE RowCount(_)
RowCount(files) ==
    IF files = <<>> THEN 0
    ELSE (IF files[1].ok THEN Len(files[1].rows) ELSE 0) + RowCount(Tail(files))

\* C4: a file whose classification fails on a missing rate contributes no
\* rows, its error is reported, the remaining files are still processed, and
\* the rows, per-file totals and global totals are those of the batch
\* without the failing files.
C4_MissingRateIsolated ==
    pc = "exit" =>
        LET kept == WithoutMissingRate(config, csv_files)
            frames == cfg_collect(config, kept)
        IN /\ idx = Len(csv_files)
           /\ \A i \in 1..Len(csv_files) :
                 MissingRate(config, csv_files[i]) =>
                     /\ <<"Error", i>> \in Range(stdout)
                     /\ \A line \in Range(stdout) :
                           ~(Len(line) = 4 /\ line[2] = i)
           /\ all_data = frames
           /\ Len(concat(all_data)) = RowCount(kept)
           /\ file_totals = TotalsOf(frames)
           /\ output_file.rows = concat(frames)
           /\ summary = IF frames = <<>> THEN NoSummary
                        ELSE OverallSummary(concat(frames))

C4_Witness ==
    /\ pc = "exit"
    /\ Len(csv_files) = 2
    /\ MissingRate(config, csv_files[1])
    /\ csv_files[2].ok /\ ~MissingRate(config, csv_files[2])
    /\ <<"Error", 1>> \in Range(stdout)
    /\ output_file.written
    /\ Len(output_file.rows) = Len(csv_files[2].rows)

WellFormedRanges(hours_list) ==
    \A i \in 1..Len(hours_list) :
        0 <= hours_list[i][1] /\ hours_list[i][1] < hours_list[i][2]
            /\ hours_list[i][2] <= 24

\* The season-coverage and range well-formedness invariants of a schedule
ValidSchedule(cfg) ==
    /\ \A m \in 1..12 :
          (m \in cfg.rates["summer"]["months"]) # (m \in cfg.rates["winter"]["months"])
    /\ \A sched \in {"weekday", "weekend_holiday"} :
          /\ \A t \in TierNames : WellFormedRanges(cfg.time_periods[sched].ranges[t])
          /\ WellFormedRanges(cfg.time_periods[sched].special.super_off_peak_extra)

\* C6: with a schedule that violates season coverage or range
\* well-formedness the run reports Invalid-Schedule and aborts at load time:
\* no file is ingested or classified and no output is written.
C6_InvalidScheduleAborts ==
    ~ValidSchedule(config) =>
        /\ all_data = <<>>
        /\ ~output_file.written

====
